---- MODULE Spec2Model ----
(***************************************************************************)
(* Block-proposal watcher of eth-validator-watcher.                        *)
(*                                                                         *)
(* handler_async (entrypoint.py) reads the beacon node's "block" event     *)
(* stream and calls handler_event for every event, one at a time;          *)
(* handler_event builds the list of slots since the last handled event,    *)
(* and for each of them fetches the proposer duties of its epoch, looks    *)
(* the proposer up, reloads the watched public keys, prints a report line  *)
(* and bumps the Prometheus counter.  Every loop iteration of              *)
(* handler_event awaits the network, so one iteration is one step here     *)
(* and the outside world (pubkeys file, Web3Signer) may change between two *)
(* iterations.  No exception is caught anywhere: one that is raised ends   *)
(* the process.                                                            *)
(***************************************************************************)
EXTENDS Integers, Sequences, FiniteSets, TLC

\* entrypoint.py:15
NB_SLOT_PER_EPOCH == 32

\* Bounds of the model: the observed slots form a window of NbSlots slots
\* that straddles the boundary between epochs 1 and 2, at most MaxEvents
\* block events are received, and the watched keys change at most MaxChanges
\* times.
NbSlots == 4
MaxEvents == 3
MaxChanges == 1

\* At most MaxEpochs evaluations of the attestation monitor and of the
\* slashing monitor.
MaxEpochs == 3

FirstSlot == 2 * NB_SLOT_PER_EPOCH - 2
Slots == FirstSlot .. (FirstSlot + NbSlots - 1)

\* Optional[T]: None, or a value of T.
None == <<>>
Some(value) == <<value>>
Get(optional) == optional[1]

\* The exception next() raises on an exhausted generator.
StopIteration == "StopIteration"

\* Public keys known to the chain.  The pubkeys file holds one per line,
\* without the 0x prefix and followed by the end of the line; Web3Signer and
\* the beacon node give them with the prefix.
FileLines == {[text |-> "aaa", eol |-> "\n"]}
SignerKeys == {"0xbbb"}
ChainPubkeys == <<"0xaaa", "0xbbb", "0xccc">>

\* The proposer assignments the beacon node may hold: validators take turns.
DutyTables ==
    {[s \in Slots |-> ChainPubkeys[((s + offset) % Len(ChainPubkeys)) + 1]] :
        offset \in {0, 1}}

\* The exceptions that end the process, by the kind the design gives them.
UpstreamUnavailable == {"ProposerDutiesUnavailable", "PubkeysUnavailable"}
DutyNotFoundFault == {"DutyNotFound"}
SinkFailure == {"LivelinessWriteFailed"}

VARIABLES
    pc,                    \* "wait": in `async for`; "loop": in handler_event's for; "crashed"
    previous_slot_number,  \* handler_async's local: slot of the latest handled event, or None
    current_slot_number,   \* handler_event's local
    ev_previous_slot,      \* handler_event's rebound parameter previous_slot_number
    slots_with_status,     \* the part of the list the for loop has not visited yet
    counter_at_event,      \* the counter's value when handler_event was entered
    stdout,                \* the printed report lines, oldest first
    counter,               \* missed_block_proposals_counter
    liveliness_file,       \* the configured path, or None
    liveliness_calls,      \* one entry per call of write_liveliness_file
    pubkeys_file_path,     \* the configured path, or None
    pubkeys_file,          \* the lines of the pubkeys file, now
    web3signer_urls,       \* the configured set of URLs, or None
    web3signer_keys,       \* what Web3Signer answers, now
    duty_pubkey,           \* beacon node: slot -> pubkey of its proposer
    duty_absent,           \* beacon node: slots its duty table has no entry for
    blocks,                \* slots the beacon node has announced a block for
    events,                \* slots of the block events received, oldest first
    changes,               \* how many times the watched keys were changed
    event_source,          \* block events announced and not yet taken by the loop
    duty_requests,         \* epochs of the proposer-duties GETs made, oldest first
    fault,                 \* the exception that ended the process, or "none"
    indexes_that_previously_missed_attestation,
                           \* attestation monitor: the failing set it retains
    attestations,          \* attestation monitor: evaluations made, and the latest one
    previously_seen_slashed,
                           \* slashing monitor: the exited-slashed set it retains
    slashings              \* slashing monitor: its evaluations, oldest first

vars == <<pc, previous_slot_number, current_slot_number, ev_previous_slot,
          slots_with_status, counter_at_event, stdout, counter, liveliness_file, liveliness_calls,
          pubkeys_file_path, pubkeys_file, web3signer_urls, web3signer_keys,
          duty_pubkey, duty_absent, blocks, events, changes, fault,
          event_source, duty_requests,
          indexes_that_previously_missed_attestation, attestations,
          previously_seen_slashed, slashings>>

config == <<liveliness_file, pubkeys_file_path, web3signer_urls>>
beacon == <<duty_pubkey, duty_absent>>
sources == <<pubkeys_file, web3signer_keys, changes>>
tick == <<current_slot_number, ev_previous_slot, slots_with_status,
          counter_at_event>>
attestation_monitor == <<indexes_that_previously_missed_attestation, attestations>>
slashing_monitor == <<previously_seen_slashed, slashings>>
monitors == <<attestation_monitor, slashing_monitor>>
watcher == <<pc, previous_slot_number, tick, stdout, counter, liveliness_calls,
             config, sources, beacon, blocks, events, fault,
             event_source, duty_requests>>

----------------------------------------------------------------------------
(* Pure parts of handler_event *)

\* range(lo, hi) as a list
Range(lo, hi) == [i \in 1 .. (IF hi > lo THEN hi - lo ELSE 0) |-> lo + i - 1]

SlotWithStatus(number, missed) == [number |-> number, missed |-> missed]

\* Variants with the range one slot too long at its end, or at its start.
SlotsWithStatusThroughCurrent(previous, current) ==
    LET skipped == Range(previous + 1, current + 1)
    IN  [i \in 1 .. Len(skipped) |-> SlotWithStatus(skipped[i], TRUE)]
        \o <<SlotWithStatus(current, FALSE)>>

SlotsWithStatusFromPrevious(previous, current) ==
    LET skipped == Range(previous, current)
    IN  [i \in 1 .. Len(skipped) |-> SlotWithStatus(skipped[i], TRUE)]
        \o <<SlotWithStatus(current, FALSE)>>

SlotsWithStatus(previous, current) ==
    LET skipped == Range(previous + 1, current)
    IN  [i \in 1 .. Len(skipped) |-> SlotWithStatus(skipped[i], TRUE)]
        \o <<SlotWithStatus(current, FALSE)>>

\* Variant that starts from genesis when there is no previous slot.
PreviousOrGenesis(previous, current) ==
    IF previous = None THEN 0 ELSE Get(previous)

PreviousOrDefault(previous, current) ==
    IF previous = None THEN current - 1 ELSE Get(previous)

\* Variant that takes the epoch of the slot before.
EpochOfSlotBefore(number) == (number - 1) \div NB_SLOT_PER_EPOCH

EpochOf(number) == number \div NB_SLOT_PER_EPOCH

\* session.get(".../duties/proposer/{epoch}"): one more request.
RequestsAfter(requests, epoch) == Append(requests, epoch)

\* Variant that takes the entry at the slot's position in the list, counted
\* from the lowest slot the list holds.
NextMatchByPosition(data, number) ==
    IF data = <<>> THEN StopIteration
    ELSE LET lowest == CHOOSE s \in {data[i].slot : i \in 1 .. Len(data)} :
                           \A i \in 1 .. Len(data) : s <= data[i].slot
             position == number - lowest + 1
         IN  IF position \in 1 .. Len(data) THEN data[position].pubkey
             ELSE StopIteration

\* next(pubkey for duty in data if duty.slot == number)
RECURSIVE NextMatch(_, _)
NextMatch(data, number) ==
    IF data = <<>> THEN StopIteration
    ELSE IF Head(data).slot = number THEN Head(data).pubkey
    ELSE NextMatch(Tail(data), number)

\* line.strip() drops the end of the line
strip(line) == line.text

load_pubkeys_from_file(lines) == {"0x" \o strip(line) : line \in lines}

PubkeysFromFile(path, lines) ==
    IF path # None THEN load_pubkeys_from_file(lines) ELSE {}

PubkeysFromWeb3Signer(urls, answer) ==
    IF urls # None THEN UNION {answer[url] : url \in Get(urls)} ELSE {}

\* Variant that forgets the keys of Web3Signer.
PubkeysOfFileOnly(path, lines, urls, answer) ==
    PubkeysFromFile(path, lines)

Pubkeys(path, lines, urls, answer) ==
    PubkeysFromFile(path, lines) \cup PubkeysFromWeb3Signer(urls, answer)

Emoji(is_our_validator, missed) ==
    IF missed
    THEN (IF is_our_validator THEN "cross" ELSE "poo")
    ELSE (IF is_our_validator THEN "sparkles" ELSE "check")

Message(slot_with_status, proposer_public_key, pubkeys, nth_event) ==
    LET is_our_validator == proposer_public_key \in pubkeys
    IN  [emoji |-> Emoji(is_our_validator, slot_with_status.missed),
         our |-> is_our_validator,
         pubkey |-> proposer_public_key,
         missed |-> slot_with_status.missed,
         number |-> slot_with_status.number,
         keys_watched |-> Cardinality(pubkeys),
         event |-> nth_event]

\* Variant that counts every missed block, ours or not.
CounterAfterAnyMiss(value, is_our_validator, missed) ==
    IF missed THEN value + 1 ELSE value

CounterAfter(value, is_our_validator, missed) ==
    IF is_our_validator /\ missed THEN value + 1 ELSE value

\* What a call of write_liveliness_file does: "OK" is written unless no file
\* is configured.  nth_event and printed tell when the call was made.
write_liveliness_file(path, nth_event, printed) ==
    [event |-> nth_event, printed |-> printed, written |-> path # None]

----------------------------------------------------------------------------
(* The beacon node *)

Urls == {"signer"}

\* The data list of GET /eth/v1/validator/duties/proposer/{epoch}, in
\* ascending or descending slot order.
DutiesData(epoch, ascending) ==
    LET all == Range(FirstSlot, FirstSlot + NbSlots)
        has(s) == s \div NB_SLOT_PER_EPOCH = epoch /\ s \notin duty_absent
        kept == SelectSeq(all, has)
        n == Len(kept)
    IN  [i \in 1 .. n |->
            LET s == kept[IF ascending THEN i ELSE n + 1 - i]
            IN  [slot |-> s, pubkey |-> duty_pubkey[s]]]

----------------------------------------------------------------------------
(* missed_blocks.py: the block-proposal monitor as a function of its
   arguments.  `beacon_order` tells the order the node gives its duty lists in. *)

\* NB_SLOT_PER_EPOCH as missed_blocks.py imports it, from utils.
utils_NB_SLOT_PER_EPOCH == 32

\* beacon.get_proposer_duties(epoch).data
get_proposer_duties(beacon_order, epoch) == DutiesData(epoch, beacon_order)

\* previous_slot = current_slot - 1 if previous_slot is None else previous_slot
previous_slot_or_default(previous_slot, current_slot) ==
    IF previous_slot = None THEN current_slot - 1 ELSE Get(previous_slot)

\* The list of slots handle_missed_block_detection goes through.
missed_blocks_slots_with_status(previous_slot, current_slot) ==
    [i \in 1 .. (IF current_slot > previous_slot + 1
                 THEN current_slot - previous_slot - 1 ELSE 0) |->
        SlotWithStatus(previous_slot + i, TRUE)]
    \o <<SlotWithStatus(current_slot, FALSE)>>

\* Variant that counts every missed block of the list.
inc_on_any_miss(value, is_our_validator, missed) ==
    IF missed THEN value + 1 ELSE value

\* if is_our_validator and slot_with_status.missed: counter.inc()
inc(value, is_our_validator, missed) ==
    IF is_our_validator /\ missed THEN value + 1 ELSE value

\* The for loop, from the slots left to visit and what is done so far: the
\* outcomes printed, the counter, and the exception raised if any.
RECURSIVE missed_blocks_loop(_, _, _, _)
missed_blocks_loop(beacon_order, slots, our_pubkeys, done) ==
    IF slots = <<>> THEN done
    ELSE LET slot_with_status == Head(slots)
             epoch == slot_with_status.number \div utils_NB_SLOT_PER_EPOCH
             proposer_pubkey ==
                 NextMatch(get_proposer_duties(beacon_order, epoch),
                           slot_with_status.number)
             is_our_validator == proposer_pubkey \in our_pubkeys
         IN  IF proposer_pubkey = StopIteration
             THEN [done EXCEPT !.raised = Some(StopIteration)]
             ELSE missed_blocks_loop(
                      beacon_order, Tail(slots), our_pubkeys,
                      [done EXCEPT
                          !.outcomes =
                              Append(@, [number |-> slot_with_status.number,
                                         missed |-> slot_with_status.missed,
                                         our |-> is_our_validator]),
                          !.counter =
                              inc(@, is_our_validator, slot_with_status.missed)])

handle_missed_block_detection(beacon_order, data_block, previous_slot, missed_block_proposals_counter, our_pubkeys) ==
    LET current_slot == data_block.slot
        done == missed_blocks_loop(
                    beacon_order,
                    missed_blocks_slots_with_status(
                        previous_slot_or_default(previous_slot, current_slot),
                        current_slot),
                    our_pubkeys,
                    [outcomes |-> <<>>,
                     counter |-> missed_block_proposals_counter,
                     raised |-> None])
    IN  [outcomes |-> done.outcomes,
         counter |-> done.counter,
         raised |-> done.raised,
         returned |-> IF done.raised = None THEN Some(current_slot) ELSE None]

\* The monitors' retained sets when the process starts.
AttestationInit ==
    /\ indexes_that_previously_missed_attestation = {}
    /\ attestations = [count |-> 0, watched |-> {}, failing |-> {},
                       previously |-> {}, missed |-> {}, double_missed |-> {}]

SlashingInit ==
    /\ previously_seen_slashed = {}
    /\ slashings = <<>>

MonitorsInit == AttestationInit /\ SlashingInit

Init ==
    /\ pc = "wait"
    /\ previous_slot_number = None
    /\ current_slot_number = None
    /\ ev_previous_slot = None
    /\ slots_with_status = <<>>
    /\ counter_at_event = 0
    /\ stdout = <<>>
    /\ counter = 0
    /\ liveliness_file \in {None, Some("liveliness")}
    /\ liveliness_calls = <<>>
    /\ pubkeys_file_path \in {None, Some("pubkeys")}
    /\ pubkeys_file = {}
    /\ web3signer_urls \in {None, Some(Urls)}
    /\ web3signer_keys = [url \in Urls |-> {}]
    /\ duty_pubkey \in DutyTables
    /\ duty_absent \in {{}, {FirstSlot + 2}}
    /\ changes = 0
    /\ blocks = {}
    /\ events = <<>>
    /\ fault = "none"
    /\ event_source = <<>>
    /\ duty_requests = <<>>
    /\ MonitorsInit

----------------------------------------------------------------------------
(* handler_async and handler_event *)

\* Variant of HandleEvent that does not wait for the handler_event call of
\* the event before (a task per event).
HandleEventWhileBusy(slot) ==
    /\ pc # "crashed"
    /\ events' = Append(events, slot)
    /\ current_slot_number' = Some(slot)
    /\ ev_previous_slot' = Some(PreviousOrDefault(previous_slot_number, slot))
    /\ slots_with_status' =
           SlotsWithStatus(PreviousOrDefault(previous_slot_number, slot), slot)
    /\ counter_at_event' = counter
    /\ pc' = "loop"
    /\ UNCHANGED <<previous_slot_number, stdout, counter, liveliness_calls,
                   config, sources, beacon, fault, duty_requests>>
    /\ UNCHANGED monitors

\* The `async for` loop takes an event, and handler_event runs up to its for
\* loop.
HandleEvent(slot) ==
    /\ pc = "wait"
    /\ events' = Append(events, slot)
    /\ current_slot_number' = Some(slot)
    /\ ev_previous_slot' = Some(PreviousOrDefault(previous_slot_number, slot))
    /\ slots_with_status' =
           SlotsWithStatus(PreviousOrDefault(previous_slot_number, slot), slot)
    /\ counter_at_event' = counter
    /\ pc' = "loop"
    /\ UNCHANGED <<previous_slot_number, stdout, counter, liveliness_calls,
                   config, sources, beacon, fault, duty_requests>>
    /\ UNCHANGED monitors

\* The beacon node announces a block while the loop waits for one: the event
\* is taken at once.
ReceiveEvent(slot) ==
    /\ Len(events) < MaxEvents
    /\ blocks' = blocks \cup {slot}
    /\ HandleEvent(slot)
    /\ UNCHANGED event_source

\* One iteration of the for loop that runs to its end.
ProcessSlot(ascending) ==
    /\ pc = "loop"
    /\ slots_with_status # <<>>
    /\ LET slot_with_status == Head(slots_with_status)
           epoch == EpochOf(slot_with_status.number)
           proposer_public_key ==
               NextMatch(DutiesData(epoch, ascending), slot_with_status.number)
           pubkeys == Pubkeys(pubkeys_file_path, pubkeys_file,
                              web3signer_urls, web3signer_keys)
           message == Message(slot_with_status, proposer_public_key, pubkeys,
                              Len(events))
       IN  /\ proposer_public_key # StopIteration
           /\ duty_requests' = RequestsAfter(duty_requests, epoch)
           /\ stdout' = Append(stdout, message)
           /\ counter' = CounterAfter(counter, message.our, message.missed)
    /\ slots_with_status' = Tail(slots_with_status)
    /\ UNCHANGED <<pc, previous_slot_number, current_slot_number,
                   ev_previous_slot, counter_at_event, liveliness_calls,
                   config, sources, beacon, blocks, events, fault,
                   event_source>>
    /\ UNCHANGED monitors

\* An exception raised in the loop of handler_event, once the GET of the
\* duties was sent.
Crash(exception) ==
    /\ pc' = "crashed"
    /\ fault' = exception
    /\ duty_requests' =
           RequestsAfter(duty_requests, EpochOf(Head(slots_with_status).number))
    /\ UNCHANGED <<previous_slot_number, tick, stdout, counter,
                   liveliness_calls, config, sources, beacon, blocks, events,
                   event_source>>
    /\ UNCHANGED monitors

\* session.get of the proposer duties raises.
DutiesUnavailable ==
    /\ pc = "loop"
    /\ slots_with_status # <<>>
    /\ Crash("ProposerDutiesUnavailable")

\* next() finds no duty for the slot.
DutyNotFound(ascending) ==
    /\ pc = "loop"
    /\ slots_with_status # <<>>
    /\ LET number == Head(slots_with_status).number
       IN  NextMatch(DutiesData(EpochOf(number), ascending), number) = StopIteration
    /\ Crash("DutyNotFound")

\* Opening the pubkeys file, or the GET to Web3Signer, raises.
PubkeysUnavailable ==
    /\ pc = "loop"
    /\ slots_with_status # <<>>
    /\ pubkeys_file_path # None \/ web3signer_urls # None
    /\ LET number == Head(slots_with_status).number
       IN  NextMatch(DutiesData(EpochOf(number), TRUE), number) # StopIteration
    /\ Crash("PubkeysUnavailable")

\* Variant of Return with write_liveliness_file out of the `async for` body.
ReturnWithoutLiveliness ==
    /\ pc = "loop"
    /\ slots_with_status = <<>>
    /\ previous_slot_number' = current_slot_number
    /\ pc' = "wait"
    /\ UNCHANGED <<tick, stdout, counter, liveliness_calls, config, sources,
                   beacon, blocks, events, fault>>
    /\ UNCHANGED <<event_source, duty_requests>>
    /\ UNCHANGED monitors

\* Variant of Return that never lets the last processed slot go back.
ReturnKeepingHighest ==
    /\ pc = "loop"
    /\ slots_with_status = <<>>
    /\ previous_slot_number' =
           IF previous_slot_number # None
              /\ Get(previous_slot_number) > Get(current_slot_number)
           THEN previous_slot_number
           ELSE current_slot_number
    /\ liveliness_calls' =
           Append(liveliness_calls,
                  write_liveliness_file(liveliness_file, Len(events), Len(stdout)))
    /\ pc' = "wait"
    /\ UNCHANGED <<tick, stdout, counter, config, sources, beacon, blocks,
                   events, fault>>
    /\ UNCHANGED <<event_source, duty_requests>>
    /\ UNCHANGED monitors

\* handler_event returns, handler_async stores the slot and overwrites the
\* liveliness file.
Return ==
    /\ pc = "loop"
    /\ slots_with_status = <<>>
    /\ previous_slot_number' = current_slot_number
    /\ liveliness_calls' =
           Append(liveliness_calls,
                  write_liveliness_file(liveliness_file, Len(events), Len(stdout)))
    /\ pc' = "wait"
    /\ UNCHANGED <<tick, stdout, counter, config, sources, beacon, blocks,
                   events, fault>>
    /\ UNCHANGED <<event_source, duty_requests>>
    /\ UNCHANGED monitors

\* The same, and mkdir or open of the liveliness file raises.
ReturnWriteFails ==
    /\ pc = "loop"
    /\ slots_with_status = <<>>
    /\ liveliness_file # None
    /\ previous_slot_number' = current_slot_number
    /\ liveliness_calls' =
           Append(liveliness_calls,
                  [write_liveliness_file(liveliness_file, Len(events), Len(stdout))
                       EXCEPT !.written = FALSE])
    /\ pc' = "crashed"
    /\ fault' = "LivelinessWriteFailed"
    /\ UNCHANGED <<tick, stdout, counter, config, sources, beacon, blocks,
                   events>>
    /\ UNCHANGED <<event_source, duty_requests>>
    /\ UNCHANGED monitors

----------------------------------------------------------------------------
(* The outside world *)

EditPubkeysFile(lines) ==
    /\ pc # "crashed"
    /\ pubkeys_file_path # None
    /\ lines # pubkeys_file
    /\ changes < MaxChanges
    /\ pubkeys_file' = lines
    /\ changes' = changes + 1
    /\ UNCHANGED <<pc, previous_slot_number, tick, stdout, counter,
                   liveliness_calls, config, web3signer_keys, beacon, blocks,
                   events, fault>>
    /\ UNCHANGED <<event_source, duty_requests>>
    /\ UNCHANGED monitors

ChangeWeb3SignerKeys(url, keys) ==
    /\ pc # "crashed"
    /\ web3signer_urls # None
    /\ keys # web3signer_keys[url]
    /\ changes < MaxChanges
    /\ web3signer_keys' = [web3signer_keys EXCEPT ![url] = keys]
    /\ changes' = changes + 1
    /\ UNCHANGED <<pc, previous_slot_number, tick, stdout, counter,
                   liveliness_calls, config, pubkeys_file, beacon, blocks,
                   events, fault>>
    /\ UNCHANGED <<event_source, duty_requests>>
    /\ UNCHANGED monitors

Next ==
    \/ \E slot \in Slots : ReceiveEvent(slot)
    \/ \E ascending \in BOOLEAN : ProcessSlot(ascending)
    \/ DutiesUnavailable
    \/ \E ascending \in BOOLEAN : DutyNotFound(ascending)
    \/ PubkeysUnavailable
    \/ Return
    \/ ReturnWriteFails
    \/ \E lines \in SUBSET FileLines : EditPubkeysFile(lines)
    \/ \E url \in Urls, keys \in SUBSET SignerKeys : ChangeWeb3SignerKeys(url, keys)

Spec == Init /\ [][Next]_vars

----------------------------------------------------------------------------
(* The attestation monitor, as the design describes it (section 4.4) *)

\* Indices of the validators the monitors look at.
Validators == {0, 2, 4}

\* One configuration of the watcher, which stays idle while a monitor is
\* looked at alone.
InitIdle ==
    /\ Init
    /\ liveliness_file = None
    /\ pubkeys_file_path = None
    /\ web3signer_urls = None
    /\ duty_absent = {}
    /\ duty_pubkey = [s \in Slots |-> ChainPubkeys[(s % Len(ChainPubkeys)) + 1]]

\* Variant that takes the evaluator's answer as it comes.
process_missed_attestations_unrestricted(failing, watched) == failing

\* missed_now: the failing indices of the epoch among the watched ones.
process_missed_attestations(failing, watched) == failing \cap watched

process_double_missed_attestations(indexes_that_missed_attestation, indexes_that_previously_missed) ==
    indexes_that_missed_attestation \cap indexes_that_previously_missed

\* Variant that merges the new failing set into the retained one.
RetainedMerged(indexes_that_missed_attestation, indexes_that_previously_missed) ==
    indexes_that_missed_attestation \cup indexes_that_previously_missed

\* The set kept for the next evaluation.
Retained(indexes_that_missed_attestation, indexes_that_previously_missed) ==
    indexes_that_missed_attestation

\* One evaluation: the watched validators and the evaluator's failing set are
\* obtained afresh.
EvaluateAttestations(watched, failing) ==
    /\ attestations.count < MaxEpochs
    /\ LET previously == indexes_that_previously_missed_attestation
           missed == process_missed_attestations(failing, watched)
           double_missed == process_double_missed_attestations(missed, previously)
       IN  /\ attestations' = [count |-> attestations.count + 1,
                               watched |-> watched,
                               failing |-> failing,
                               previously |-> previously,
                               missed |-> missed,
                               double_missed |-> double_missed]
           /\ indexes_that_previously_missed_attestation' =
                  Retained(missed, previously)
    /\ UNCHANGED <<watcher, slashing_monitor>>

NextAttestation ==
    \E watched \in SUBSET Validators, failing \in SUBSET Validators :
        EvaluateAttestations(watched, failing)

SpecAttestation == InitIdle /\ [][NextAttestation]_vars

----------------------------------------------------------------------------
(* The slashing monitor, as the design describes it (section 4.5) *)

\* The validators that may get slashed, with their public keys, and the keys
\* that may be watched.
SlashablePubkey == [index \in {5, 6, 7} |->
                       CASE index = 5 -> "0xfff"
                         [] index = 6 -> "0xggg"
                         [] index = 7 -> "0xhhh"]
WatchablePubkeys == {"0xggg", "0xhhh"}

\* Variant that takes every slashed validator for one of ours.
our_exited_slashed_all(total_exited_slashed, our_pubkeys) == total_exited_slashed

\* watched_slashed: the exited-slashed validators whose pubkey is watched.
our_exited_slashed(total_exited_slashed, our_pubkeys) ==
    {index \in total_exited_slashed : SlashablePubkey[index] \in our_pubkeys}

new_slashed(watched_slashed, previously_seen) == watched_slashed \ previously_seen

\* Variant that remembers our slashed validators only.
SeenOursOnly(total_exited_slashed, watched_slashed) == watched_slashed

\* The set kept for the next evaluation: the full exited-slashed set.
Seen(total_exited_slashed, watched_slashed) == total_exited_slashed

\* The exited-slashed set of the chain never loses a validator.
LastExitedSlashed ==
    IF slashings = <<>> THEN {} ELSE slashings[Len(slashings)].exited_slashed

\* One evaluation: the exited-slashed set and the watched keys are obtained
\* afresh.
EvaluateSlashing(total_exited_slashed, our_pubkeys) ==
    /\ Len(slashings) < MaxEpochs
    /\ LastExitedSlashed \subseteq total_exited_slashed
    /\ LET watched_slashed == our_exited_slashed(total_exited_slashed, our_pubkeys)
       IN  /\ slashings' =
                  Append(slashings,
                         [exited_slashed |-> total_exited_slashed,
                          our_pubkeys |-> our_pubkeys,
                          ours |-> watched_slashed,
                          alerted |-> new_slashed(watched_slashed,
                                                  previously_seen_slashed),
                          others |-> total_exited_slashed \ watched_slashed])
           /\ previously_seen_slashed' = Seen(total_exited_slashed, watched_slashed)
    /\ UNCHANGED <<watcher, attestation_monitor>>

NextSlashing ==
    \E total_exited_slashed \in SUBSET DOMAIN SlashablePubkey,
       our_pubkeys \in SUBSET WatchablePubkeys :
        EvaluateSlashing(total_exited_slashed, our_pubkeys)

SpecSlashing == InitIdle /\ [][NextSlashing]_vars

----------------------------------------------------------------------------
(* The event stream: block events that arrive while handler_event runs wait
   in the event source until the `async for` loop asks for the next one. *)

Announce(slot) ==
    /\ Len(events) + Len(event_source) < MaxEvents
    /\ blocks' = blocks \cup {slot}
    /\ event_source' = Append(event_source, slot)
    /\ UNCHANGED <<pc, previous_slot_number, tick, stdout, counter,
                   liveliness_calls, config, sources, beacon, events, fault,
                   duty_requests>>
    /\ UNCHANGED monitors

TakeEvent ==
    /\ event_source # <<>>
    /\ HandleEvent(Head(event_source))
    /\ event_source' = Tail(event_source)
    /\ UNCHANGED blocks

NextStream ==
    \/ \E slot \in Slots : Announce(slot)
    \/ TakeEvent
    \/ \E ascending \in BOOLEAN : ProcessSlot(ascending)
    \/ DutiesUnavailable
    \/ \E ascending \in BOOLEAN : DutyNotFound(ascending)
    \/ Return

\* Started with no pubkeys file, no Web3Signer and no liveliness file.
InitNoFiles ==
    /\ Init
    /\ liveliness_file = None
    /\ pubkeys_file_path = None
    /\ web3signer_urls = None

SpecStream == InitNoFiles /\ [][NextStream]_vars

----------------------------------------------------------------------------
(* Runs where the pubkey sources change only between two ticks, and answer
   every request: the watched set is the same for all the slots of a tick. *)

EditPubkeysFileBetweenTicks(lines) ==
    /\ pc = "wait"
    /\ EditPubkeysFile(lines)

ChangeWeb3SignerKeysBetweenTicks(url, keys) ==
    /\ pc = "wait"
    /\ ChangeWeb3SignerKeys(url, keys)

NextSteady ==
    \/ \E slot \in Slots : ReceiveEvent(slot)
    \/ \E ascending \in BOOLEAN : ProcessSlot(ascending)
    \/ \E ascending \in BOOLEAN : DutyNotFound(ascending)
    \/ Return
    \/ \E lines \in SUBSET FileLines : EditPubkeysFileBetweenTicks(lines)
    \/ \E url \in Urls, keys \in SUBSET SignerKeys :
           ChangeWeb3SignerKeysBetweenTicks(url, keys)

\* Started with no liveliness file.
InitSteady ==
    /\ Init
    /\ liveliness_file = None

SpecSteady == InitSteady /\ [][NextSteady]_vars

----------------------------------------------------------------------------
(* Vocabulary of the properties *)

Last(seq) == seq[Len(seq)]

\* The report lines printed while handling the latest event.
TickReports == SelectSeq(stdout, LAMBDA m : m.event = Len(events))

\* The report lines printed for slot number.
ReportsOf(number) == {j \in 1 .. Len(stdout) : stdout[j].number = number}

\* Every event received so far is for the slot after the one before.
Gapless == \A i \in 2 .. Len(events) : events[i] = events[i - 1] + 1

\* The beacon node announced a block for the slot.
HasBlockAtSlot(number) == number \in blocks

\* The union the pubkey sources hold at this moment.
WatchedSource ==
    (IF pubkeys_file_path = None THEN {}
     ELSE {"0x" \o line.text : line \in pubkeys_file})
    \cup (IF web3signer_urls = None THEN {}
          ELSE UNION {web3signer_keys[url] : url \in Get(web3signer_urls)})

\* The epochs the slots fall in.
Epochs == {s \div NB_SLOT_PER_EPOCH : s \in Slots}

\* Every order the beacon node can give a duty list in.
Reorderings(data) ==
    {[i \in 1 .. Len(data) |-> data[order[i]]] :
        order \in Permutations(1 .. Len(data))}

\* The number of events whose handler_event call has returned.
Returned ==
    IF pc = "wait" \/ fault \in SinkFailure THEN Len(events) ELSE Len(events) - 1

----------------------------------------------------------------------------
(* Properties *)

\* C1: within one run no slot number is reported in more than one report
\* line, whatever the sequence of block events (repeated or non-increasing
\* slot numbers included).
C1_NoSlotReportedTwice ==
    \A i, j \in 1 .. Len(stdout) :
        i # j => stdout[i].number # stdout[j].number

C3_CatchUpCoversTheGap ==
    (Len(events) >= 2 /\ Get(current_slot_number) > Get(ev_previous_slot) + 1) =>
        LET P == Get(ev_previous_slot)
            N == Get(current_slot_number)
        IN  /\ Len(TickReports) <= N - P
            /\ \A i \in 1 .. Len(TickReports) :
                  /\ TickReports[i].number = P + i
                  /\ TickReports[i].missed = (P + i # N)
            /\ slots_with_status = <<>> => Len(TickReports) = N - P

C3_Witness ==
    /\ Len(events) >= 2
    /\ pc = "wait"
    /\ Get(current_slot_number) > Get(ev_previous_slot) + 2
    /\ Len(TickReports) = Get(current_slot_number) - Get(ev_previous_slot)

\* C4: the first event of a run, for slot N, is handled with N - 1 as the
\* previous slot: one line is printed, for N, it says proposed, and the
\* counter is not touched.
C4_FirstTickReportsOnlyItsSlot ==
    Len(events) = 1 =>
        /\ ev_previous_slot = Some(events[1] - 1)
        /\ counter = 0
        /\ Len(stdout) <= 1
        /\ \A j \in 1 .. Len(stdout) :
              stdout[j].number = events[1] /\ ~stdout[j].missed
        /\ pc = "wait" => Len(stdout) = 1

C4_Witness ==
    /\ events = <<2 * NB_SLOT_PER_EPOCH - 1>>
    /\ pc = "wait"
    /\ Len(stdout) = 1
    /\ stdout[1].number = 2 * NB_SLOT_PER_EPOCH - 1
    /\ ~stdout[1].missed

\* C5: every step of the loop that takes an outcome off the list prints one
\* line for it, whoever the proposer is; the counter goes up by one with a
\* line that says missed for a proposer in the watched set of that moment,
\* and does not move otherwise.
C5_CounterCountsWatchedMisses ==
    [][/\ (pc = "loop" /\ pc' = "loop" /\ slots_with_status' # slots_with_status) =>
              /\ Len(stdout') = Len(stdout) + 1
              /\ Last(stdout').number = Head(slots_with_status).number
              /\ Last(stdout').missed = Head(slots_with_status).missed
       /\ Len(stdout') = Len(stdout) + 1 =>
              counter' =
                  IF Last(stdout').missed /\ Last(stdout').pubkey \in WatchedSource
                  THEN counter + 1
                  ELSE counter
       /\ stdout' = stdout => counter' = counter]_vars

C5_Witness ==
    /\ counter >= 1
    /\ \E j \in 1 .. Len(stdout) : stdout[j].missed /\ stdout[j].our
    /\ \E j \in 1 .. Len(stdout) : stdout[j].missed /\ ~stdout[j].our
    /\ \E j \in 1 .. Len(stdout) : ~stdout[j].missed /\ stdout[j].our

\* C6: after a failed upstream query the loop is still waiting for events and
\* the last processed slot is the one it was when the event arrived.
C6_UpstreamFailureKeepsTheLoopAlive ==
    fault \in UpstreamUnavailable =>
        /\ pc = "wait"
        /\ previous_slot_number \in {None, ev_previous_slot}

\* C7: a slot without a duty entry gets a line that says unresolved, and the
\* slots after it in the same catch-up get their lines.
C7_DutyNotFoundSkipsOnlyThatSlot ==
    fault \in DutyNotFoundFault =>
        \A i \in 1 .. Len(slots_with_status) :
            \E j \in 1 .. Len(TickReports) :
                /\ TickReports[j].number = slots_with_status[i].number
                /\ i = 1 => TickReports[j].emoji = "unresolved"

\* C8: a failed write of the liveliness file leaves the last processed slot at
\* the slot of the event just handled and the loop waiting for the next event.
C8_SinkFailureDoesNotStopTheLoop ==
    fault \in SinkFailure =>
        /\ previous_slot_number = current_slot_number
        /\ pc = "wait"

\* C9: every line is printed with the watched set the pubkey sources hold at
\* the moment of that loop iteration: the file's keys, prefixed, united with
\* Web3Signer's.
C9_WatchedSetIsFresh ==
    [][Len(stdout') = Len(stdout) + 1 =>
          /\ Last(stdout').our = (Last(stdout').pubkey \in WatchedSource)
          /\ Last(stdout').keys_watched = Cardinality(WatchedSource)]_vars

\* Two events, the same proposer, and the watched set changed in between:
\* the second line follows the change.
C9_Witness ==
    \E i, j \in 1 .. Len(stdout) :
        /\ stdout[i].event < stdout[j].event
        /\ stdout[i].pubkey = stdout[j].pubkey
        /\ stdout[i].our # stdout[j].our
        /\ stdout[j].our = (stdout[j].pubkey \in WatchedSource)
        /\ changes > 0

C11_EscalationIsTheIntersection ==
    [][attestations'.count = attestations.count + 1 =>
          /\ attestations'.missed = attestations'.failing \cap attestations'.watched
          /\ attestations'.double_missed =
                 attestations'.missed \cap attestations.missed
          /\ indexes_that_previously_missed_attestation' = attestations'.missed]_vars

\* Previous {A, C}, current {A, B}: escalation {A}, ordinary misses {A, B}.
C11_Witness ==
    /\ attestations.watched = {0, 2, 4}
    /\ attestations.previously = {0, 4}
    /\ attestations.missed = {0, 2}
    /\ attestations.double_missed = {0}
    /\ indexes_that_previously_missed_attestation = {0, 2}

\* C12: the escalated validators of an evaluation are among its
\* failing-watched ones, so all of them are watched at that evaluation.
C12_EscalationWithinWatchedFailing ==
    /\ attestations.double_missed \subseteq attestations.missed
    /\ attestations.double_missed \subseteq attestations.watched
    /\ attestations.double_missed \subseteq attestations.failing

\* A validator that failed the epoch before, fails again and is no longer
\* watched: it is not escalated.
C12_Witness ==
    \E v \in Validators :
        /\ v \in attestations.previously
        /\ v \in attestations.failing
        /\ v \notin attestations.watched
        /\ v \notin attestations.double_missed
        /\ attestations.double_missed # {}

\* The evaluations that alerted for the validator.
AlertsFor(index) == {n \in 1 .. Len(slashings) : index \in slashings[n].alerted}

\* C13: over the evaluations of a run, no validator gets more than one
\* slashing alert.
C13_OneSlashingAlertPerValidator ==
    \A index \in DOMAIN SlashablePubkey : Cardinality(AlertsFor(index)) <= 1

\* A validator alerted for, then not watched, then watched again while still
\* slashed: it has its one alert.
C13_Witness ==
    \E index \in DOMAIN SlashablePubkey :
        /\ Len(slashings) >= 3
        /\ AlertsFor(index) = {1}
        /\ index \notin slashings[2].ours
        /\ index \in slashings[3].ours

\* C14: an evaluation alerts exactly for the exited-slashed validators whose
\* pubkey is watched and that were not in the exited-slashed set of the
\* evaluation before.
C14_AlertsAreTheNewWatchedSlashed ==
    [][Len(slashings') = Len(slashings) + 1 =>
          LET now == Last(slashings')
          IN  /\ now.ours = {index \in now.exited_slashed :
                                 SlashablePubkey[index] \in now.our_pubkeys}
              /\ now.alerted = now.ours \ LastExitedSlashed]_vars

\* Slashed set {5, 6} then {5, 6, 7}, watched 6 and 7: the alert is for 7.
C14_Witness ==
    /\ Len(slashings) >= 2
    /\ slashings[Len(slashings) - 1].exited_slashed = {5, 6}
    /\ Last(slashings).exited_slashed = {5, 6, 7}
    /\ Last(slashings).ours = {6, 7}
    /\ Last(slashings).alerted = {7}

\* C15: a tick ended by a failed duty fetch has printed no line and moved
\* the counter for none of its slots, and the last processed slot is the one
\* it was when the event arrived.
C15_FailedTickLeavesNothing ==
    fault = "ProposerDutiesUnavailable" =>
        /\ Len(TickReports) = 0
        /\ counter = Cardinality({j \in 1 .. Len(stdout) :
                                     /\ stdout[j].event < Len(events)
                                     /\ stdout[j].missed
                                     /\ stdout[j].our})
        /\ previous_slot_number \in {None, ev_previous_slot}

\* C16: when the loop takes an event, the handler_event call of the event
\* before has returned: its list of slots is used up, its lines are printed,
\* the one for its own slot last, and the last processed slot is its slot.
\* Lines and counter increments appear only while the loop is inside
\* handler_event for the latest event taken.
C16_OneTickAtATime ==
    [][/\ events' # events =>
              /\ pc = "wait"
              /\ slots_with_status = <<>>
              /\ events # <<>> =>
                    /\ previous_slot_number = Some(Last(events))
                    /\ TickReports # <<>>
                    /\ Last(stdout).number = Last(events)
                    /\ Last(stdout).event = Len(events)
       /\ (stdout' # stdout \/ counter' # counter
             \/ duty_requests' # duty_requests) =>
              /\ pc = "loop"
              /\ events' = events
              /\ stdout' # stdout => Last(stdout').event = Len(events)]_vars

\* A block event waits in the event source while handler_event is in its loop
\* for an earlier one, after a first hand-over from one tick to the next.
C16_Witness ==
    /\ pc = "loop"
    /\ slots_with_status # <<>>
    /\ event_source # <<>>
    /\ Len(events) >= 2
    /\ Len(TickReports) >= 1

\* C17: every slot is resolved against the duty table of its own epoch,
\* slot div 32, requested before the slot's line is printed: the k-th request
\* to the beacon node is for the epoch of the k-th line's slot, and the line
\* names the proposer that table gives for the slot; a request without a line
\* is the one that ended the process, and the slot is reported as not found
\* only when its own epoch's table lacks it.  In a catch-up tick over
\* an epoch change this is neither the epoch of the previous slot nor the
\* epoch of the event's slot for all of its slots.
C17_EachSlotAgainstItsOwnEpoch ==
    /\ Len(duty_requests) >= Len(stdout)
    /\ \A k \in 1 .. Len(stdout) :
          /\ duty_requests[k] = stdout[k].number \div NB_SLOT_PER_EPOCH
          /\ stdout[k].pubkey = duty_pubkey[stdout[k].number]
          /\ stdout[k].number \notin duty_absent
    /\ Len(duty_requests) > Len(stdout) =>
          /\ Len(duty_requests) = Len(stdout) + 1
          /\ pc = "crashed"
          /\ Last(duty_requests)
                 = Head(slots_with_status).number \div NB_SLOT_PER_EPOCH
          /\ fault \in DutyNotFoundFault
                 => Head(slots_with_status).number \in duty_absent

\* A completed catch-up tick over an epoch change: it printed a missed slot of
\* the previous slot's epoch and a slot of the event's epoch, which differ.
C17_Witness ==
    /\ pc = "wait"
    /\ Len(events) >= 2
    /\ Get(ev_previous_slot) \div NB_SLOT_PER_EPOCH
           # Get(current_slot_number) \div NB_SLOT_PER_EPOCH
    /\ \E i, j \in 1 .. Len(TickReports) :
          /\ TickReports[i].missed
          /\ TickReports[i].number \div NB_SLOT_PER_EPOCH
                 = Get(ev_previous_slot) \div NB_SLOT_PER_EPOCH
          /\ TickReports[j].number \div NB_SLOT_PER_EPOCH
                 = Get(current_slot_number) \div NB_SLOT_PER_EPOCH
          /\ duty_requests[Len(duty_requests)]
                 # duty_requests[Len(duty_requests) - Len(TickReports) + i]

\* C18: a slot is resolved by its number, whatever the order of the duty
\* list: for every reordering of an epoch's duty list (one entry per slot) the
\* scan gives each slot the proposer the table names for it, and raises for a
\* slot the list lacks; every printed line names the proposer that every
\* reordering of its epoch's list gives.
C18_ResolutionIgnoresListOrder ==
    /\ \A epoch \in Epochs :
          \A data \in Reorderings(DutiesData(epoch, TRUE)) :
              \A s \in Slots :
                  NextMatch(data, s) =
                      IF s \div NB_SLOT_PER_EPOCH = epoch /\ s \notin duty_absent
                      THEN duty_pubkey[s]
                      ELSE StopIteration
    /\ \A epoch \in Epochs :
          DutiesData(epoch, FALSE) \in Reorderings(DutiesData(epoch, TRUE))
    /\ \A k \in 1 .. Len(stdout) :
          \A data \in Reorderings(DutiesData(duty_requests[k], TRUE)) :
              stdout[k].pubkey = NextMatch(data, stdout[k].number)

\* A line is printed for a slot whose epoch's duty list has several entries,
\* with different proposers, so that its reorderings differ.
C18_Witness ==
    \E k \in 1 .. Len(stdout) :
        LET data == DutiesData(duty_requests[k], TRUE)
        IN  /\ Len(data) >= 2
            /\ Cardinality(Reorderings(data)) >= 2
            /\ data[1].slot # stdout[k].number
            /\ data[1].pubkey # stdout[k].pubkey

\* C19: the duty table of an epoch is fetched once and reused: within one
\* run the beacon node is asked at most once for the proposer duties of each
\* epoch.
C19_EachEpochRequestedOnce ==
    \A epoch \in Epochs :
        Cardinality({k \in 1 .. Len(duty_requests) :
                         duty_requests[k] = epoch}) <= 1

\* The (slot, missed, is-ours) outcomes of the lines handler_event printed for
\* the latest event.
TickOutcomes ==
    [i \in 1 .. Len(TickReports) |->
        [number |-> TickReports[i].number,
         missed |-> TickReports[i].missed,
         our |-> TickReports[i].our]]

\* C20: handler_event and handle_missed_block_detection agree.  Called with
\* the previous slot, the event's slot and the counter handler_event was
\* entered with, the same beacon node (in either list order) and the watched
\* set the sources hold during the tick, handle_missed_block_detection gives
\* the outcomes handler_event has printed so far as the first of its own; when
\* handler_event reaches its return statement, both have the same outcomes,
\* the same counter and the same returned slot; when handler_event ends on a
\* slot the duty list lacks, so does handle_missed_block_detection, after the
\* same outcomes and increments.
C20_SameAsHandleMissedBlockDetection ==
    (events # <<>> /\ (pc = "loop" \/ fault \in DutyNotFoundFault)) =>
        \A beacon_order \in BOOLEAN :
            LET result == handle_missed_block_detection(
                              beacon_order,
                              [slot |-> Get(current_slot_number)],
                              previous_slot_number,
                              counter_at_event,
                              WatchedSource)
                n == Len(TickOutcomes)
            IN  /\ n <= Len(result.outcomes)
                /\ TickOutcomes = SubSeq(result.outcomes, 1, n)
                /\ (pc = "loop" /\ slots_with_status = <<>>) =>
                       /\ result.outcomes = TickOutcomes
                       /\ result.counter = counter
                       /\ result.raised = None
                       /\ result.returned = current_slot_number
                /\ fault \in DutyNotFoundFault =>
                       /\ result.outcomes = TickOutcomes
                       /\ result.counter = counter
                       /\ result.raised = Some(StopIteration)
                       /\ result.returned = None

\* handler_event is at its return statement after a catch-up from a known
\* previous slot, with a watched validator's missed block counted and another
\* validator's line printed.
C20_Witness ==
    /\ pc = "loop"
    /\ slots_with_status = <<>>
    /\ previous_slot_number # None
    /\ Len(TickOutcomes) >= 3
    /\ counter > counter_at_event
    /\ \E i, j \in 1 .. Len(TickOutcomes) :
          /\ TickOutcomes[i].our /\ TickOutcomes[i].missed
          /\ ~TickOutcomes[j].our /\ TickOutcomes[j].missed

\* C21: when handler_event returns, the last processed slot becomes the slot
\* of the event just handled, whatever it was before, and it is that slot
\* whenever the loop waits for the next event.  When the event's slot is not
\* greater than the last processed slot, the tick has printed one line only,
\* for the event's slot and as proposed, the counter is as it was when the
\* tick began, and the last processed slot goes back to the event's slot;
\* handle_missed_block_detection builds the same one-slot list.
C21_LastProcessedSlotIsTheEventSlot ==
    [][/\ (pc = "loop" /\ slots_with_status = <<>> /\ pc' # "loop") =>
              /\ previous_slot_number' = Some(Last(events))
              /\ counter' = counter
              /\ stdout' = stdout
              /\ (/\ previous_slot_number # None
                  /\ Last(events) <= Get(previous_slot_number)) =>
                     /\ Len(TickOutcomes) = 1
                     /\ TickOutcomes[1].number = Last(events)
                     /\ ~TickOutcomes[1].missed
                     /\ counter = counter_at_event
                     /\ Get(previous_slot_number') <= Get(previous_slot_number)
                     /\ missed_blocks_slots_with_status(
                            previous_slot_or_default(previous_slot_number,
                                                     Last(events)),
                            Last(events))
                          = <<SlotWithStatus(Last(events), FALSE)>>
       /\ (pc' = "wait" /\ events' # <<>>) =>
              previous_slot_number' = Some(Last(events'))]_vars

\* A tick for a slot below the last processed one has completed: the last
\* processed slot went back to it, with one line printed for the tick, and a
\* watched validator was the proposer of that slot.
C21_Witness ==
    /\ pc = "wait"
    /\ Len(events) >= 2
    /\ events[Len(events)] < events[Len(events) - 1]
    /\ previous_slot_number = Some(Last(events))
    /\ Len(TickOutcomes) = 1
    /\ TickOutcomes[1].our
    /\ counter_at_event > 0

====
